---- MODULE Spec2Model ----
(***************************************************************************)
(* fix_emojis.py: a fixed-table find-and-replace of mis-decoded emoji      *)
(* sequences by ASCII tags in one text file.  Text is a sequence of        *)
(* Unicode code points, a file is a sequence of bytes.                     *)
(***************************************************************************)
EXTENDS Integers, Sequences, FiniteSets, TLC

\* ------------------------------------------------------------ bounds
\* Number of tokens (table patterns or single characters) a generated file
\* content is concatenated from.
MaxTokens == 2
\* Number of command-line arguments after the program name.
MaxArgs == 2

\* ------------------------------------------------------------ the table
\* The table with the plain play-arrow pattern listed before the pattern that
\* carries the mis-decoded variation selector after it.
replacementsShortFirst == <<
    [emoji |-> <<226, 8211, 182>>, ascii_sym |-> <<91, 62, 93>>],   \* line 8: [>]
    [emoji |-> <<226, 8211, 182, 239, 184>>, ascii_sym |-> <<91, 62, 93>>],   \* line 7: [>]
    [emoji |-> <<226, 184, 239, 184>>, ascii_sym |-> <<91, 124, 124, 93>>],   \* line 9: [||]
    [emoji |-> <<226, 184>>, ascii_sym |-> <<91, 124, 124, 93>>],   \* line 10: [||]
    [emoji |-> <<226, 185, 239, 184>>, ascii_sym |-> <<91, 35, 93>>],   \* line 11: [#]
    [emoji |-> <<226, 185>>, ascii_sym |-> <<91, 35, 93>>],   \* line 12: [#]
    [emoji |-> <<240, 376, 8221, 8222>>, ascii_sym |-> <<91, 82, 93>>],   \* line 13: [R]
    [emoji |-> <<226, 339, 8230>>, ascii_sym |-> <<91, 79, 75, 93>>],   \* line 14: [OK]
    [emoji |-> <<226, 338>>, ascii_sym |-> <<91, 88, 93>>],   \* line 15: [X]
    [emoji |-> <<226, 732, 8216, 239, 184>>, ascii_sym |-> <<91, 43, 93>>],   \* line 16: [+]
    [emoji |-> <<226, 732, 8216>>, ascii_sym |-> <<91, 43, 93>>],   \* line 17: [+]
    [emoji |-> <<226, 732>>, ascii_sym |-> <<91, 32, 93>>],   \* line 18: [ ]
    [emoji |-> <<240, 376, 8220, 164>>, ascii_sym |-> <<91, 94, 93>>],   \* line 19: [^]
    [emoji |-> <<240, 376, 381, 181>>, ascii_sym |-> <<91, 126, 93>>],   \* line 20: [~]
    [emoji |-> <<226, 173>>, ascii_sym |-> <<91, 42, 93>>],   \* line 21: [*]
    [emoji |-> <<240, 376, 8212, 8216, 239, 184>>, ascii_sym |-> <<91, 68, 69, 76, 93>>],   \* line 22: [DEL]
    [emoji |-> <<240, 376, 8221, 167>>, ascii_sym |-> <<91, 70, 73, 88, 93>>],   \* line 23: [FIX]
    [emoji |-> <<240, 376, 353, 8364>>, ascii_sym |-> <<91, 62, 62, 93>>],   \* line 24: [>>]
    [emoji |-> <<226, 353, 160, 239, 184>>, ascii_sym |-> <<91, 33, 93>>],   \* line 25: [!]
    [emoji |-> <<226, 353, 160>>, ascii_sym |-> <<91, 33, 93>>],   \* line 26: [!]
    [emoji |-> <<240, 376, 8217, 190>>, ascii_sym |-> <<91, 83, 65, 86, 69, 93>>],   \* line 27: [SAVE]
    [emoji |-> <<226, 352, 732>>, ascii_sym |-> <<91, 83, 84, 79, 80, 93>>]   \* line 28: [STOP]
>>

\* src/fix_emojis.py lines 6-29, in the dict's insertion (= iteration) order.
\* Keys and values are written as their code points, as Python decodes the
\* UTF-8 source file.
replacements == <<
    [emoji |-> <<226, 8211, 182, 239, 184>>, ascii_sym |-> <<91, 62, 93>>],   \* line 7: [>]
    [emoji |-> <<226, 8211, 182>>, ascii_sym |-> <<91, 62, 93>>],   \* line 8: [>]
    [emoji |-> <<226, 184, 239, 184>>, ascii_sym |-> <<91, 124, 124, 93>>],   \* line 9: [||]
    [emoji |-> <<226, 184>>, ascii_sym |-> <<91, 124, 124, 93>>],   \* line 10: [||]
    [emoji |-> <<226, 185, 239, 184>>, ascii_sym |-> <<91, 35, 93>>],   \* line 11: [#]
    [emoji |-> <<226, 185>>, ascii_sym |-> <<91, 35, 93>>],   \* line 12: [#]
    [emoji |-> <<240, 376, 8221, 8222>>, ascii_sym |-> <<91, 82, 93>>],   \* line 13: [R]
    [emoji |-> <<226, 339, 8230>>, ascii_sym |-> <<91, 79, 75, 93>>],   \* line 14: [OK]
    [emoji |-> <<226, 338>>, ascii_sym |-> <<91, 88, 93>>],   \* line 15: [X]
    [emoji |-> <<226, 732, 8216, 239, 184>>, ascii_sym |-> <<91, 43, 93>>],   \* line 16: [+]
    [emoji |-> <<226, 732, 8216>>, ascii_sym |-> <<91, 43, 93>>],   \* line 17: [+]
    [emoji |-> <<226, 732>>, ascii_sym |-> <<91, 32, 93>>],   \* line 18: [ ]
    [emoji |-> <<240, 376, 8220, 164>>, ascii_sym |-> <<91, 94, 93>>],   \* line 19: [^]
    [emoji |-> <<240, 376, 381, 181>>, ascii_sym |-> <<91, 126, 93>>],   \* line 20: [~]
    [emoji |-> <<226, 173>>, ascii_sym |-> <<91, 42, 93>>],   \* line 21: [*]
    [emoji |-> <<240, 376, 8212, 8216, 239, 184>>, ascii_sym |-> <<91, 68, 69, 76, 93>>],   \* line 22: [DEL]
    [emoji |-> <<240, 376, 8221, 167>>, ascii_sym |-> <<91, 70, 73, 88, 93>>],   \* line 23: [FIX]
    [emoji |-> <<240, 376, 353, 8364>>, ascii_sym |-> <<91, 62, 62, 93>>],   \* line 24: [>>]
    [emoji |-> <<226, 353, 160, 239, 184>>, ascii_sym |-> <<91, 33, 93>>],   \* line 25: [!]
    [emoji |-> <<226, 353, 160>>, ascii_sym |-> <<91, 33, 93>>],   \* line 26: [!]
    [emoji |-> <<240, 376, 8217, 190>>, ascii_sym |-> <<91, 83, 65, 86, 69, 93>>],   \* line 27: [SAVE]
    [emoji |-> <<226, 352, 732>>, ascii_sym |-> <<91, 83, 84, 79, 80, 93>>]   \* line 28: [STOP]
>>

TableIdx == 1..Len(replacements)

\* ------------------------------------------------------------ str helpers
IsPrefix(a, b) == Len(a) <= Len(b) /\ SubSeq(b, 1, Len(a)) = a

StrictPrefix(a, b) == Len(a) < Len(b) /\ SubSeq(b, 1, Len(a)) = a

\* pat occurs in s at (1-based) position p
OccursAt(pat, s, p) ==
    /\ p >= 1
    /\ p + Len(pat) - 1 <= Len(s)
    /\ SubSeq(s, p, p + Len(pat) - 1) = pat

Occurs(pat, s) == \E p \in 1..Len(s) : OccursAt(pat, s, p)

\* A plausible slip: str.replace(old, new, 1), only the first occurrence.
RECURSIVE StrReplaceFirstOnly(_, _, _)
StrReplaceFirstOnly(s, old, new) ==
    IF Len(s) < Len(old) THEN s
    ELSE IF SubSeq(s, 1, Len(old)) = old
         THEN new \o SubSeq(s, Len(old) + 1, Len(s))
         ELSE <<Head(s)>> \o StrReplaceFirstOnly(Tail(s), old, new)

\* str.replace(old, new) for a non-empty old: left-to-right scan, every
\* non-overlapping occurrence replaced.
RECURSIVE StrReplace(_, _, _)
StrReplace(s, old, new) ==
    IF Len(s) < Len(old) THEN s
    ELSE IF SubSeq(s, 1, Len(old)) = old
         THEN new \o StrReplace(SubSeq(s, Len(old) + 1, Len(s)), old, new)
         ELSE <<Head(s)>> \o StrReplace(Tail(s), old, new)

\* The for loop of lines 36-37 over the entries i..Len(tbl) of tbl.
RECURSIVE ReplaceFrom(_, _, _)
ReplaceFrom(tbl, i, s) ==
    IF i > Len(tbl) THEN s
    ELSE ReplaceFrom(tbl, i + 1, StrReplace(s, tbl[i].emoji, tbl[i].ascii_sym))

\* The loop iterating the table backwards.
RECURSIVE ReplaceDownFrom(_, _, _)
ReplaceDownFrom(tbl, i, s) ==
    IF i < 1 THEN s
    ELSE ReplaceDownFrom(tbl, i - 1, StrReplace(s, tbl[i].emoji, tbl[i].ascii_sym))

ReplaceAllReversed(tbl, s) == ReplaceDownFrom(tbl, Len(tbl), s)

ReplaceAll(tbl, s) == ReplaceFrom(tbl, 1, s)

\* ------------------------------------------------------------ UTF-8
IsCont(b) == b >= 128 /\ b <= 191

Utf8EncodeChar(c) ==
    IF c < 128 THEN <<c>>
    ELSE IF c < 2048 THEN <<192 + (c \div 64), 128 + (c % 64)>>
    ELSE IF c < 65536
         THEN <<224 + (c \div 4096), 128 + ((c \div 64) % 64), 128 + (c % 64)>>
         ELSE <<240 + (c \div 262144), 128 + ((c \div 4096) % 64),
                128 + ((c \div 64) % 64), 128 + (c % 64)>>

\* encoding='utf-8' on write (line 40)
RECURSIVE Utf8Encode(_)
Utf8Encode(text) ==
    IF text = <<>> THEN <<>>
    ELSE Utf8EncodeChar(Head(text)) \o Utf8Encode(Tail(text))

\* Strict decoder of encoding='utf-8' on read (line 32): [ok, text].
RECURSIVE Utf8Decode(_)
Utf8Decode(bytes) ==
    IF bytes = <<>> THEN [ok |-> TRUE, text |-> <<>>]
    ELSE LET b1 == bytes[1]
             n  == IF b1 < 128 THEN 1
                   ELSE IF b1 >= 194 /\ b1 <= 223 THEN 2
                   ELSE IF b1 >= 224 /\ b1 <= 239 THEN 3
                   ELSE IF b1 >= 240 /\ b1 <= 244 THEN 4
                   ELSE 0
         IN IF n = 0 \/ Len(bytes) < n \/ \E k \in 2..n : ~IsCont(bytes[k])
            THEN [ok |-> FALSE, text |-> <<>>]
            ELSE LET cp == IF n = 1 THEN b1
                           ELSE IF n = 2 THEN (b1 - 192) * 64 + (bytes[2] - 128)
                           ELSE IF n = 3
                                THEN (b1 - 224) * 4096 + (bytes[2] - 128) * 64
                                     + (bytes[3] - 128)
                                ELSE (b1 - 240) * 262144 + (bytes[2] - 128) * 4096
                                     + (bytes[3] - 128) * 64 + (bytes[4] - 128)
                     bad == \/ (n = 3 /\ cp < 2048)
                            \/ (n = 4 /\ cp < 65536)
                            \/ (cp >= 55296 /\ cp <= 57343)
                            \/ cp > 1114111
                     rest == Utf8Decode(SubSeq(bytes, n + 1, Len(bytes)))
                 IN IF bad \/ ~rest.ok
                    THEN [ok |-> FALSE, text |-> <<>>]
                    ELSE [ok |-> TRUE, text |-> <<cp>> \o rest.text]

\* Text mode with newline=None on read (line 32): "\r\n" and "\r" become "\n".
RECURSIVE TranslateNewlines(_)
TranslateNewlines(text) ==
    IF text = <<>> THEN <<>>
    ELSE IF Head(text) = 13
         THEN IF Len(text) >= 2 /\ text[2] = 10
              THEN <<10>> \o TranslateNewlines(SubSeq(text, 3, Len(text)))
              ELSE <<10>> \o TranslateNewlines(Tail(text))
         ELSE <<Head(text)>> \o TranslateNewlines(Tail(text))

\* f.read() of lines 32-33 on the bytes of a file: [ok, text].
ReadText(bytes) ==
    LET d == Utf8Decode(bytes)
    IN [ok |-> d.ok, text |-> TranslateNewlines(d.text)]

\* f.write(content) of lines 40-41 (os.linesep = "\n": a POSIX host).
WriteBytes(text) == Utf8Encode(text)

\* ------------------------------------------------------------ state
VARIABLES
    argv,        \* sys.argv: the program name, then the arguments
    fs,          \* the file system: path -> [exists, readable, writable, data]
    fault,       \* what the device does to the write of line 41
    pc,          \* position of the process
    filepath,    \* fix_file's parameter
    content,     \* fix_file's local (lines 33, 37)
    original,    \* fix_file's local (line 35)
    stdout,      \* the lines printed by this invocation
    result,      \* fix_file's return value: "none", "True" or "False"
    error,       \* the exception that ended this invocation, or "none"
    events,      \* history of this invocation: <<kind, path>> per file operation
    fs0,         \* history: the file system when this invocation started
    second,      \* history: this is the second invocation on the same argv
    prevPc,      \* history: how the first invocation ended
    prevResult   \* history: what fix_file returned in the first invocation

vars == <<argv, fs, fault, pc, filepath, content, original, stdout, result,
          error, events, fs0, second, prevPc, prevResult>>

Prog == "fix_emojis.py"
Paths == {"a.txt", "b.txt"}
NoPath == ""
UsageLine == <<"Usage", "python3 fix_emojis.py <file>">>
FixedLine(p) == <<"Fixed", p>>

\* ------------------------------------------------------------ inputs
\* Single characters next to the patterns: the first characters of patterns,
\* the mis-decoded variation selector's two characters, the third character
\* of the checked-box pattern, a carriage return and a letter.
SingleChars == {226, 239, 184, 8216, 13, 120}

Tokens == {replacements[k].emoji : k \in TableIdx} \cup {<<c>> : c \in SingleChars}

RECURSIVE Flatten(_)
Flatten(ts) == IF ts = <<>> THEN <<>> ELSE Head(ts) \o Flatten(Tail(ts))

Texts == {Flatten(ts) : ts \in UNION {[1..n -> Tokens] : n \in 0..MaxTokens}}

\* "Status: <U+2705> done <U+274C> failed"
ScenarioReal == <<83, 116, 97, 116, 117, 115, 58, 32, 9989, 32, 100, 111, 110,
                  101, 32, 10060, 32, 102, 97, 105, 108, 101, 100>>
\* "Status: [OK] done [X] failed"
ScenarioFixed == <<83, 116, 97, 116, 117, 115, 58, 32, 91, 79, 75, 93, 32, 100,
                   111, 110, 101, 32, 91, 88, 93, 32, 102, 97, 105, 108, 101, 100>>
\* "plain text, no emoji"
PlainText == <<112, 108, 97, 105, 110, 32, 116, 101, 120, 116, 44, 32, 110, 111,
               32, 101, 109, 111, 106, 105>>
\* the mis-decoded check mark, a space, the mis-decoded cross mark
TwoMarks == replacements[8].emoji \o <<32>> \o replacements[9].emoji
\* a CRLF line holding the mis-decoded star
CrlfStar == replacements[15].emoji \o <<13, 10>>

File(bytes) == [exists |-> TRUE, readable |-> TRUE, writable |-> TRUE, data |-> bytes]
Missing == [exists |-> FALSE, readable |-> FALSE, writable |-> FALSE, data |-> <<>>]
Unreadable == [File(WriteBytes(TwoMarks)) EXCEPT !.readable = FALSE]
ReadOnly == [File(WriteBytes(TwoMarks)) EXCEPT !.writable = FALSE]
\* the first two bytes of a three-byte sequence: not valid UTF-8
Undecodable == File(<<226, 156>>)

SmallFiles == {Missing, Unreadable, ReadOnly, Undecodable,
               File(WriteBytes(PlainText)), File(WriteBytes(TwoMarks)),
               File(WriteBytes(CrlfStar))}

ArgLists == UNION {[1..n -> Paths] : n \in 0..MaxArgs}

Init ==
    /\ \/ /\ argv = <<Prog, "a.txt">>
          /\ \E t \in Texts \cup {ScenarioReal} :
                fs = [p \in Paths |-> IF p = "a.txt" THEN File(WriteBytes(t))
                                      ELSE File(WriteBytes(TwoMarks))]
          /\ fault = "none"
       \/ /\ \E args \in ArgLists : argv = <<Prog>> \o args
          /\ fs \in [Paths -> SmallFiles]
          /\ fault \in {"none", "short_write"}
    /\ pc = "main"
    /\ filepath = NoPath
    /\ content = <<>>
    /\ original = <<>>
    /\ stdout = <<>>
    /\ result = "none"
    /\ error = "none"
    /\ events = <<>>
    /\ fs0 = fs
    /\ second = FALSE
    /\ prevPc = "none"
    /\ prevResult = "none"

\* ------------------------------------------------------------ actions
\* A main that hands fix_file the last argument instead of the first.
MainLastArg ==
    /\ pc = "main"
    /\ IF Len(argv) > 1
       THEN /\ filepath' = argv[Len(argv)]
            /\ events' = Append(events, <<"call", argv[Len(argv)]>>)
            /\ pc' = "read"
            /\ UNCHANGED stdout
       ELSE /\ stdout' = Append(stdout, UsageLine)
            /\ pc' = "exit"
            /\ UNCHANGED <<filepath, events>>
    /\ UNCHANGED <<argv, fs, fault, content, original, result, error, fs0,
                   second, prevPc, prevResult>>

\* lines 46-51
Main ==
    /\ pc = "main"
    /\ IF Len(argv) > 1
       THEN /\ filepath' = argv[2]
            /\ events' = Append(events, <<"call", argv[2]>>)
            /\ pc' = "read"
            /\ UNCHANGED stdout
       ELSE /\ stdout' = Append(stdout, UsageLine)
            /\ pc' = "exit"
            /\ UNCHANGED <<filepath, events>>
    /\ UNCHANGED <<argv, fs, fault, content, original, result, error, fs0,
                   second, prevPc, prevResult>>

\* A read that opens the file in a creating mode ('a+').
ReadFileCreates ==
    /\ pc = "read"
    /\ LET f == fs[filepath]
           r == ReadText(f.data)
       IN IF ~f.exists
          THEN /\ fs' = [fs EXCEPT ![filepath] = File(<<>>)]
               /\ events' = Append(events, <<"open_r", filepath>>)
               /\ content' = <<>>
               /\ original' = <<>>
               /\ pc' = "loop"
               /\ UNCHANGED error
          ELSE IF ~f.readable
          THEN /\ error' = "PermissionError"
               /\ pc' = "raised"
               /\ UNCHANGED <<fs, events, content, original>>
          ELSE IF ~r.ok
          THEN /\ error' = "UnicodeDecodeError"
               /\ pc' = "raised"
               /\ events' = Append(events, <<"open_r", filepath>>)
               /\ UNCHANGED <<fs, content, original>>
          ELSE /\ content' = r.text
               /\ original' = r.text
               /\ events' = Append(events, <<"open_r", filepath>>)
               /\ pc' = "loop"
               /\ UNCHANGED <<fs, error>>
    /\ UNCHANGED <<argv, fault, filepath, stdout, result, fs0, second,
                   prevPc, prevResult>>

\* lines 32-35: open for reading, read and decode, close, keep the original
ReadFile ==
    /\ pc = "read"
    /\ LET f == fs[filepath]
           r == ReadText(f.data)
       IN IF ~f.exists
          THEN /\ error' = "FileNotFoundError"
               /\ pc' = "raised"
               /\ UNCHANGED <<events, content, original>>
          ELSE IF ~f.readable
          THEN /\ error' = "PermissionError"
               /\ pc' = "raised"
               /\ UNCHANGED <<events, content, original>>
          ELSE IF ~r.ok
          THEN /\ error' = "UnicodeDecodeError"
               /\ pc' = "raised"
               /\ events' = Append(events, <<"open_r", filepath>>)
               /\ UNCHANGED <<content, original>>
          ELSE /\ content' = r.text
               /\ original' = r.text
               /\ events' = Append(events, <<"open_r", filepath>>)
               /\ pc' = "loop"
               /\ UNCHANGED error
    /\ UNCHANGED <<argv, fs, fault, filepath, stdout, result, fs0, second,
                   prevPc, prevResult>>

\* The table entries whose pattern occurs in s.
Hits(s) == {k \in TableIdx : Occurs(replacements[k].emoji, s)}

\* A loop that breaks after the first entry that matched.
ReplaceLoopFirstHit ==
    /\ pc = "loop"
    /\ content' = IF Hits(content) = {} THEN content
                  ELSE LET k == CHOOSE h \in Hits(content) :
                                    \A g \in Hits(content) : h <= g
                       IN StrReplace(content, replacements[k].emoji,
                                     replacements[k].ascii_sym)
    /\ pc' = "compare"
    /\ UNCHANGED <<argv, fs, fault, filepath, original, stdout, result, error,
                   events, fs0, second, prevPc, prevResult>>

\* lines 36-37
ReplaceLoop ==
    /\ pc = "loop"
    /\ content' = ReplaceAll(replacements, content)
    /\ pc' = "compare"
    /\ UNCHANGED <<argv, fs, fault, filepath, original, stdout, result, error,
                   events, fs0, second, prevPc, prevResult>>

\* The comparison dropped: the file is always reopened for writing.
CompareAndOpenAlways ==
    /\ pc = "compare"
    /\ IF ~fs[filepath].writable
       THEN /\ error' = "PermissionError"
            /\ pc' = "raised"
            /\ UNCHANGED <<fs, events>>
       ELSE /\ fs' = [fs EXCEPT ![filepath].data = <<>>]
            /\ events' = Append(events, <<"open_w", filepath>>)
            /\ pc' = "write"
            /\ UNCHANGED error
    /\ UNCHANGED <<argv, fault, filepath, content, original, stdout, result,
                   fs0, second, prevPc, prevResult>>

\* The notice printed as soon as a change is detected, before the write.
CompareAndOpenPrintsFirst ==
    /\ pc = "compare"
    /\ IF content # original
       THEN IF ~fs[filepath].writable
            THEN /\ error' = "PermissionError"
                 /\ pc' = "raised"
                 /\ stdout' = Append(stdout, FixedLine(filepath))
                 /\ UNCHANGED <<fs, events, result>>
            ELSE /\ fs' = [fs EXCEPT ![filepath].data = <<>>]
                 /\ events' = Append(events, <<"open_w", filepath>>)
                 /\ stdout' = Append(stdout, FixedLine(filepath))
                 /\ pc' = "write"
                 /\ UNCHANGED <<error, result>>
       ELSE /\ result' = "False"
            /\ pc' = "exit"
            /\ UNCHANGED <<fs, events, error, stdout>>
    /\ UNCHANGED <<argv, fault, filepath, content, original,
                   fs0, second, prevPc, prevResult>>

\* lines 39-40 and 44: compare; when changed, open for writing, which
\* truncates the file; when unchanged, return False
CompareAndOpen ==
    /\ pc = "compare"
    /\ IF content # original
       THEN IF ~fs[filepath].writable
            THEN /\ error' = "PermissionError"
                 /\ pc' = "raised"
                 /\ UNCHANGED <<fs, events, result>>
            ELSE /\ fs' = [fs EXCEPT ![filepath].data = <<>>]
                 /\ events' = Append(events, <<"open_w", filepath>>)
                 /\ pc' = "write"
                 /\ UNCHANGED <<error, result>>
       ELSE /\ result' = "False"
            /\ pc' = "exit"
            /\ UNCHANGED <<fs, events, error>>
    /\ UNCHANGED <<argv, fault, filepath, content, original, stdout,
                   fs0, second, prevPc, prevResult>>

\* line 41 and the close at the end of the with block: the encoded content
\* reaches the file, or the device accepts only a part of it and the write
\* raises
WriteFile ==
    /\ pc = "write"
    /\ \/ /\ fault = "none"
          /\ fs' = [fs EXCEPT ![filepath].data = WriteBytes(content)]
          /\ events' = Append(events, <<"close_w", filepath>>)
          /\ pc' = "print"
          /\ UNCHANGED error
       \/ /\ fault = "short_write"
          /\ \E n \in 0..(Len(WriteBytes(content)) - 1) :
                fs' = [fs EXCEPT ![filepath].data = SubSeq(WriteBytes(content), 1, n)]
          /\ error' = "OSError"
          /\ pc' = "raised"
          /\ UNCHANGED events
    /\ UNCHANGED <<argv, fault, filepath, content, original, stdout, result,
                   fs0, second, prevPc, prevResult>>

\* lines 42-43
PrintFixed ==
    /\ pc = "print"
    /\ stdout' = Append(stdout, FixedLine(filepath))
    /\ result' = "True"
    /\ pc' = "exit"
    /\ UNCHANGED <<argv, fs, fault, filepath, content, original, error,
                   events, fs0, second, prevPc, prevResult>>

\* The program is started a second time with the same arguments.
RunAgain ==
    /\ pc \in {"exit", "raised"}
    /\ ~second
    /\ second' = TRUE
    /\ prevPc' = pc
    /\ prevResult' = result
    /\ fs0' = fs
    /\ pc' = "main"
    /\ filepath' = NoPath
    /\ content' = <<>>
    /\ original' = <<>>
    /\ stdout' = <<>>
    /\ result' = "none"
    /\ error' = "none"
    /\ events' = <<>>
    /\ UNCHANGED <<argv, fs, fault>>

Next ==
    \/ Main
    \/ ReadFile
    \/ ReplaceLoop
    \/ CompareAndOpen
    \/ WriteFile
    \/ PrintFixed
    \/ RunAgain

Spec == Init /\ [][Next]_vars

\* ------------------------------------------------------------ vocabulary
Pat(k) == replacements[k].emoji
Rep(k) == replacements[k].ascii_sym
Fix(s) == ReplaceAll(replacements, s)

HasEvent(kind) == \E i \in 1..Len(events) : events[i][1] = kind
Printed == \E i \in 1..Len(stdout) : stdout[i][1] = "Fixed"
Called == Len(argv) > 1 /\ pc # "main"

\* In iteration order every pattern comes after each pattern it is a strict
\* prefix of.
LongerFirst == \A i, j \in TableIdx : StrictPrefix(Pat(i), Pat(j)) => j < i

\* The entry with the longest pattern occurring in s at position p.
LongestAt(s, p) ==
    CHOOSE m \in TableIdx :
        /\ OccursAt(Pat(m), s, p)
        /\ \A g \in TableIdx : OccursAt(Pat(g), s, p) => Len(Pat(g)) <= Len(Pat(m))

\* No pattern occurring in s is a strict prefix of another pattern occurring in s.
NoPrefixClash(s) == \A k, l \in Hits(s) : ~StrictPrefix(Pat(k), Pat(l))

\* The table with the entries i and j exchanged.
SwapEntries(tbl, i, j) ==
    [k \in 1..Len(tbl) |-> IF k = i THEN tbl[j] ELSE IF k = j THEN tbl[i] ELSE tbl[k]]

\* The occurrence of entry i at p and of entry j at q (after it) were each
\* replaced by their own replacement, and exchanging the two entries in the
\* table gives the same content.
PairReplaced(i, j, p, q) ==
    /\ content = Fix(SubSeq(original, 1, p - 1)) \o Rep(i)
                   \o Fix(SubSeq(original, p + Len(Pat(i)), q - 1)) \o Rep(j)
                   \o Fix(SubSeq(original, q + Len(Pat(j)), Len(original)))
    /\ ReplaceAll(SwapEntries(replacements, i, j), original) = content

DisjointPairs(s) ==
    {x \in Hits(s) \X Hits(s) \X (1..Len(s)) \X (1..Len(s)) :
        /\ x[1] # x[2]
        /\ ~IsPrefix(Pat(x[1]), Pat(x[2]))
        /\ ~IsPrefix(Pat(x[2]), Pat(x[1]))
        /\ OccursAt(Pat(x[1]), s, x[3])
        /\ OccursAt(Pat(x[2]), s, x[4])
        /\ x[3] + Len(Pat(x[1])) <= x[4]}

\* ------------------------------------------------------------ C1
\* C1: after the replacement loop no table pattern occurs in the content, and
\* a second run after a first run that ended normally leaves every file as the
\* first run left it, opens nothing for writing, raises nothing and returns
\* False.
Idempotent ==
    /\ pc = "compare" => Hits(content) = {}
    /\ (second /\ prevPc = "exit") =>
          /\ fs = fs0
          /\ pc # "raised"
          /\ ~HasEvent("open_w")
          /\ (pc = "exit" /\ Len(argv) > 1 => result = "False")

IdempotentWitness ==
    /\ second
    /\ prevPc = "exit"
    /\ prevResult = "True"
    /\ pc = "exit"
    /\ result = "False"
    /\ fs = fs0

\* ------------------------------------------------------------ C2
\* C2: in every state every file holds its complete original content or the
\* complete replaced content.
AllOrNothing ==
    \A p \in Paths :
        \/ fs[p] = fs0[p]
        \/ /\ ReadText(fs0[p].data).ok
           /\ fs[p] = [fs0[p] EXCEPT !.data = WriteBytes(Fix(ReadText(fs0[p].data).text))]

\* ------------------------------------------------------------ C3
\* C3: a file holding "Status: <U+2705> done <U+274C> failed" holds
\* "Status: [OK] done [X] failed" after one call, which returns True.
ScenarioRealEmoji ==
    (~second /\ original = ScenarioReal /\ pc \in {"exit", "raised"}) =>
        /\ fs[filepath].data = WriteBytes(ScenarioFixed)
        /\ result = "True"

\* ------------------------------------------------------------ C4
\* The file at filepath, as this run found it, is readable text without an
\* occurrence of a table pattern.
PatternFree ==
    /\ fs0[filepath].exists
    /\ fs0[filepath].readable
    /\ ReadText(fs0[filepath].data).ok
    /\ Hits(ReadText(fs0[filepath].data).text) = {}

\* The run has so far behaved as a no-op.
NoOpSoFar ==
    /\ fs = fs0
    /\ ~HasEvent("open_w")
    /\ stdout = <<>>
    /\ pc \in {"read", "loop", "compare", "exit"}
    /\ result = (IF pc = "exit" THEN "False" ELSE "none")

\* C4: when the text of the file holds no occurrence of a table pattern, the
\* call returns False, the file is never opened for writing, no file changes
\* and nothing is printed: (Called /\ PatternFree) => NoOpSoFar.
NoOpPurity == ~Called \/ NoOpSoFar \/ ~PatternFree

NoOpPurityWitness ==
    /\ ~second
    /\ pc = "exit"
    /\ result = "False"
    /\ Hits(original) = {}
    /\ \E i \in 1..Len(original) : original[i] = 226
    /\ fs = fs0

\* ------------------------------------------------------------ C5
\* C5: the table lists every pattern after the patterns it is a strict prefix
\* of; and wherever a pattern that has such a prefix in the table occurs in
\* the text, the longest pattern occurring there is replaced as a whole by
\* its replacement, which is the replacement of that pattern, the text before
\* and after being fixed on their own; this content is what the file holds
\* after the call.
PrefixPrecedence ==
    /\ LongerFirst
    /\ pc = "compare" =>
          \A l \in Hits(original) :
              (\E s \in TableIdx : StrictPrefix(Pat(s), Pat(l))) =>
                  \A p \in 1..Len(original) :
                      OccursAt(Pat(l), original, p) =>
                          LET m == LongestAt(original, p)
                          IN /\ Rep(m) = Rep(l)
                             /\ content = Fix(SubSeq(original, 1, p - 1)) \o Rep(m)
                                    \o Fix(SubSeq(original, p + Len(Pat(m)), Len(original)))
    /\ (pc = "exit" /\ result = "True") => fs[filepath].data = WriteBytes(content)

PrefixPrecedenceWitness ==
    /\ ~second
    /\ pc = "exit"
    /\ result = "True"
    /\ Len(original) > Len(Pat(10))
    /\ \E p \in 1..Len(original) : OccursAt(Pat(10), original, p)
    /\ fs[filepath].data = WriteBytes(content)

\* ------------------------------------------------------------ C6
\* C6: a file whose whole text is one table pattern holds exactly that
\* entry's replacement after the call, which returns True.
ExactSubstitution ==
    \A k \in TableIdx :
        original = Pat(k) =>
            /\ pc \in {"compare", "write", "print", "exit"} => content = Rep(k)
            /\ pc \in {"print", "exit"} => fs[filepath].data = WriteBytes(Rep(k))
            /\ pc = "exit" => result = "True"
            /\ fault = "none" => pc # "raised"

ExactSubstitutionWitness ==
    /\ ~second
    /\ pc = "exit"
    /\ original = Pat(1)
    /\ result = "True"
    /\ fs[filepath].data = WriteBytes(Rep(1))

\* ------------------------------------------------------------ C7
\* The file at filepath, as this run found it, cannot be read as text.
CannotRead ==
    \/ ~fs0[filepath].exists
    \/ ~fs0[filepath].readable
    \/ ~ReadText(fs0[filepath].data).ok

\* The error that reading the file at filepath raises.
ReadError ==
    IF ~fs0[filepath].exists THEN "FileNotFoundError"
    ELSE IF ~fs0[filepath].readable THEN "PermissionError"
    ELSE "UnicodeDecodeError"

\* C7: when the file is missing, unreadable or not valid UTF-8, the call
\* raises the matching error, no file is opened for writing, created or
\* changed, and nothing is printed or returned.
ReadFailure ==
    (Called /\ CannotRead) =>
        /\ pc \in {"read", "raised"}
        /\ pc = "raised" => error = ReadError
        /\ fs = fs0
        /\ ~HasEvent("open_w")
        /\ stdout = <<>>
        /\ result = "none"

ReadFailureWitness ==
    /\ ~second
    /\ pc = "raised"
    /\ error = "FileNotFoundError"
    /\ ~fs[filepath].exists

\* ------------------------------------------------------------ C8
\* C8: the notice is printed exactly when the call returns True; when it is
\* printed it is the only line, the write has completed and the file holds
\* the new content, which differs from the original; a call that returns
\* False prints nothing; and at the end of a run with an argument the notice
\* is there exactly when a file changed.
NoticeIffChange ==
    /\ Printed <=> result = "True"
    /\ Printed =>
          /\ stdout = <<FixedLine(filepath)>>
          /\ HasEvent("close_w")
          /\ content # original
          /\ fs[filepath].data = WriteBytes(content)
          /\ fs[filepath].data # fs0[filepath].data
    /\ result = "False" => stdout = <<>> /\ fs = fs0
    /\ (pc = "exit" /\ Len(argv) > 1) => (Printed <=> fs # fs0)

NoticeIffChangeWitness ==
    /\ ~second
    /\ pc = "exit"
    /\ Printed
    /\ result = "True"
    /\ fs # fs0

\* ------------------------------------------------------------ C9
\* C9 as stated: whenever two distinct table patterns, neither a prefix of
\* the other, occur in the text without overlapping, each occurrence is
\* replaced by its own replacement and exchanging the two entries in the
\* table gives the same content.
OrderIndependenceAsStated ==
    pc = "compare" =>
        \A x \in DisjointPairs(original) : PairReplaced(x[1], x[2], x[3], x[4])

\* C9 as amended: the same, for a text in which no occurring table pattern is
\* a strict prefix of another occurring table pattern.
OrderIndependence ==
    (pc = "compare" /\ NoPrefixClash(original)) =>
        \A x \in DisjointPairs(original) : PairReplaced(x[1], x[2], x[3], x[4])

OrderIndependenceWitness ==
    /\ ~second
    /\ pc = "compare"
    /\ NoPrefixClash(original)
    /\ DisjointPairs(original) # {}
    /\ \A x \in DisjointPairs(original) : PairReplaced(x[1], x[2], x[3], x[4])

\* ------------------------------------------------------------ C10
\* C10: without an argument the run touches no file, raises nothing, calls
\* nothing and ends having printed the usage line only; with arguments
\* fix_file is called once, on the first of them, and every file operation
\* and every change concerns that path only.
Dispatch ==
    /\ Len(argv) <= 1 =>
          /\ events = <<>>
          /\ fs = fs0
          /\ pc \in {"main", "exit"}
          /\ error = "none"
          /\ result = "none"
          /\ filepath = NoPath
          /\ stdout = (IF pc = "exit" THEN <<UsageLine>> ELSE <<>>)
    /\ Called =>
          /\ filepath = argv[2]
          /\ events[1] = <<"call", argv[2]>>
          /\ \A i \in 2..Len(events) : events[i][1] # "call" /\ events[i][2] = argv[2]
          /\ \A p \in Paths \ {argv[2]} : fs[p] = fs0[p]
          /\ \A i \in 1..Len(stdout) : stdout[i] # UsageLine

DispatchWitness ==
    /\ Len(argv) = 1
    /\ pc = "exit"
    /\ stdout = <<UsageLine>>
    /\ events = <<>>
====
